---- MODULE Spec2Model ----
(***************************************************************************)
(* FocalLengthAnalyzer (src/main/main.py): one interactive, single-thread  *)
(* process per run, and the durable file missing_exif_data.json that       *)
(* carries manually entered focal lengths from one run to the next.        *)
(*                                                                         *)
(* Numbers.  Focal lengths are fixed-point integers in hundredths of a     *)
(* millimetre (5000 is 50.0 mm); crop factors are in tenths (16 is 1.6).   *)
(* Raw focal lengths are multiples of 0.1 mm, so a product focal * crop    *)
(* is an exact number of hundredths.                                       *)
(* Text.  A label is the sequence of the code points of the Python string, *)
(* so that comparing labels is comparing Python strings.  A path is the    *)
(* sequence of its components below the input folder.                      *)
(***************************************************************************)
EXTENDS Integers, Sequences, FiniteSets, TLC

VARIABLES
    file,               \* missing_exif_data.json on disk
    crop_factors,       \* self.crop_factors
    missing_exif_data,  \* self.missing_exif_data
    walk,               \* files os.walk has still to yield
    missing_exif_files, \* analyze_folder's list of images without a focal length
    idx,                \* position of the loop over missing_exif_files (1-based)
    focal_data,         \* analyze_folder's list of records
    focal_input,        \* handle_missing_exif: the stripped line last read
    focal_length,       \* handle_missing_exif: the parsed focal length
    resolved,           \* what the run printed per missing image: path, outcome, value
    report,             \* what main() did after analyze_folder
    pc,                 \* where the process is; "idle" when no process runs
    call                \* a single call of group_focal_length: argument and result

vars == <<file, crop_factors, missing_exif_data, walk, missing_exif_files, idx,
          focal_data, focal_input, focal_length, resolved, report, pc, call>>

\* Python's None where a string may stand, and where a number may stand (no
\* modelled number is negative)
None == "None"
NoneF == 0 - 1

(***************************************************************************)
(* Bounds of the model.                                                    *)
(***************************************************************************)
\* at most this many files are present under the input folder in one run
MaxFiles == 3
\* group_focal_length is called alone on every tenth of a millimetre up to this many mm
MaxFocal == 2001

(***************************************************************************)
(* Text helpers.                                                           *)
(***************************************************************************)
\* Python's str < str: lexicographic on code points, a proper prefix first
RECURSIVE StrLess(_, _)
StrLess(a, b) ==
    IF b = <<>> THEN FALSE
    ELSE IF a = <<>> THEN TRUE
    ELSE IF a[1] # b[1] THEN a[1] < b[1]
    ELSE StrLess(Tail(a), Tail(b))

\* str(n) for an integer n >= 0, as code points
RECURSIVE IntToStr(_)
IntToStr(n) ==
    IF n < 10 THEN <<48 + n>> ELSE Append(IntToStr(n \div 10), 48 + (n % 10))

(***************************************************************************)
(* _define_focal_groups: the table, in its definition order.  min and max  *)
(* are in millimetres, as in the source.                                   *)
(***************************************************************************)
_define_focal_groups ==
    << [name |-> <<36229, 24191, 35282, 40, 49, 52, 45, 49, 57, 109, 109, 41>>,
        min |-> 14, max |-> 19],
       [name |-> <<36229, 24191, 35282, 40, 50, 48, 45, 50, 51, 109, 109, 41>>,
        min |-> 20, max |-> 23],
       [name |-> <<24191, 35282, 32, 40, 50, 52, 45, 50, 56, 109, 109, 41>>,
        min |-> 24, max |-> 28],
       [name |-> <<26631, 20934, 24191, 35282, 32, 40, 51, 53, 109, 109, 41>>,
        min |-> 29, max |-> 40],
       [name |-> <<26631, 20934, 32, 40, 53, 48, 109, 109, 41>>,
        min |-> 41, max |-> 65],
       [name |-> <<20154, 20687, 32, 40, 56, 53, 109, 109, 41>>,
        min |-> 66, max |-> 95],
       [name |-> <<20013, 38271, 28966, 32, 40, 49, 48, 48, 45, 49, 51, 53, 109, 109, 41>>,
        min |-> 95, max |-> 149],
       [name |-> <<38271, 28966, 32, 40, 50, 48, 48, 109, 109, 41>>,
        min |-> 150, max |-> 250],
       [name |-> <<36229, 38271, 28966, 32, 40, 51, 48, 48, 109, 109, 41>>,
        min |-> 251, max |-> 349],
       [name |-> <<36229, 38271, 28966, 32, 40, 52, 48, 48, 109, 109, 41>>,
        min |-> 350, max |-> 449],
       [name |-> <<36229, 38271, 28966, 32, 40, 53, 48, 48, 45, 54, 48, 48, 109, 109, 41>>,
        min |-> 450, max |-> 649],
       [name |-> <<36229, 38271, 28966, 32, 40, 54, 48, 48, 109, 109, 43, 41>>,
        min |-> 650, max |-> 2000] >>

focal_groups == _define_focal_groups

\* the label returned for a missing focal length (line 133)
UnknownLabel == <<26410, 30693, 28966, 27573>>

\* int(round(x)) for x >= 0 in hundredths: to the nearest integer, a half to the even one
RoundInt(x) ==
    LET q == x \div 100
        r == x % 100
    IN  IF r < 50 THEN q
        ELSE IF r > 50 THEN q + 1
        ELSE IF q % 2 = 0 THEN q ELSE q + 1

\* does the group hold the value (line 136): min_f <= focal_length <= max_f
InGroup(g, v) == g.min * 100 <= v /\ v <= g.max * 100

\* group_focal_length (lines 131-140): the first group of the table that holds the
\* value, else "<n>mm"
group_focal_length(v) ==
    IF v = NoneF THEN UnknownLabel
    ELSE LET hits == {i \in DOMAIN focal_groups : InGroup(focal_groups[i], v)}
         IN  IF hits # {}
             THEN focal_groups[CHOOSE i \in hits : \A j \in hits : i <= j].name
             ELSE IntToStr(RoundInt(v)) \o <<109, 109>>

(***************************************************************************)
(* The crop-factor table (lines 30-39, 81-90).                             *)
(***************************************************************************)
\* camera_model.lower().strip() (line 85) on the model names the decoder yields here
LowerStrip(camera_model) ==
    CASE camera_model = "NIKON D7500" -> "nikon d7500"
      [] camera_model = " Nikon D7500 " -> "nikon d7500"
      [] camera_model = "X100" -> "x100"
      [] OTHER -> camera_model

\* what camera_crop_factors.json may hold: no file, or a table
CropFactorFiles == { [exists |-> FALSE, table |-> <<>>],
                     [exists |-> TRUE, table |-> [k \in {"nikon d7500"} |-> 15]] }

\* _load_crop_factors (lines 30-39): the table of the file, {} without a file
_load_crop_factors(f) == IF f.exists THEN f.table ELSE <<>>

\* get_camera_crop_factor (lines 81-90): 1 for no model or an unknown one
get_camera_crop_factor(table, camera_model) ==
    IF camera_model = None \/ camera_model = "" THEN 10
    ELSE IF LowerStrip(camera_model) \in DOMAIN table
         THEN table[LowerStrip(camera_model)]
         ELSE 10

\* round(x, 1) for x >= 0 in hundredths.  Python rounds the binary value of the
\* float: a decimal tie (x.x5) falls to either side, depending on how the product
\* was represented, so both neighbours are possible results.
Round1(x) ==
    LET q == x \div 10
        r == x % 10
    IN  IF r < 5 THEN {10 * q}
        ELSE IF r > 5 THEN {10 * (q + 1)}
        ELSE {10 * q, 10 * (q + 1)}

\* convert_to_35mm_equivalent (lines 121-128): the possible results
convert_to_35mm_equivalent(table, focal, camera_model) ==
    IF focal = NoneF THEN {NoneF}
    ELSE Round1((focal * get_camera_crop_factor(table, camera_model)) \div 10)

(***************************************************************************)
(* The input folder and the metadata decoder (lines 93-118, 194-217).      *)
(***************************************************************************)
\* the files that may lie under the input folder, in the order os.walk yields them
WalkOrder == << <<"x.jpg">>, <<"._x.jpg">>, <<"sub", "x.jpg">>,
                <<"sub", "Y.JPG">>, <<"sub", "notes.txt">> >>

\* os.path.basename (lines 145, 243)
Basename(path) == path[Len(path)]

\* filename.startswith('._') (line 203)
IsResourceFork(name) == name = "._x.jpg"

\* os.path.splitext(filename.lower())[1] (line 206)
FileExt(name) ==
    CASE name \in {"x.jpg", "._x.jpg"} -> ".jpg"
      [] name = "Y.JPG" -> ".jpg"
      [] name = "notes.txt" -> ".txt"

supported_formats == {".jpg", ".jpeg", ".tiff", ".tif", ".png", ".arw", ".cr2", ".nef"}

\* what img._getexif() may give for one image: "error" when opening or decoding
\* raises, None without EXIF, else the tags FocalLength and Model
ExifInputs ==
    { [kind |-> "error"],
      [kind |-> "none"],
      [kind |-> "tags", FocalLength |-> [kind |-> "absent"], Model |-> "X100"],
      [kind |-> "tags", FocalLength |-> [kind |-> "number", value |-> 5000],
                        Model |-> None],
      [kind |-> "tags", FocalLength |-> [kind |-> "number", value |-> 5000],
                        Model |-> "NIKON D7500"],
      [kind |-> "tags", FocalLength |-> [kind |-> "tuple", num |-> 155, den |-> 10],
                        Model |-> " Nikon D7500 "] }

\* extract_exif_data (lines 93-118): <<focal_length, camera_model>>
extract_exif_data(exif) ==
    CASE exif.kind = "error" -> <<NoneF, None>>
      [] exif.kind = "none" -> <<NoneF, None>>
      [] exif.kind = "tags" ->
            LET fl == exif.FocalLength IN
            CASE fl.kind = "absent" -> <<NoneF, exif.Model>>
              [] fl.kind = "tuple" -> <<(fl.num * 100) \div fl.den, exif.Model>>
              [] fl.kind = "number" -> <<fl.value, exif.Model>>

\* the subsequence of s whose elements are in S
RECURSIVE Restrict(_, _)
Restrict(s, S) ==
    IF s = <<>> THEN <<>>
    ELSE IF s[1] \in S THEN <<s[1]>> \o Restrict(Tail(s), S)
    ELSE Restrict(Tail(s), S)

\* the listings os.walk may give: at most MaxFiles of the files, in walk order
Folders ==
    { Restrict(WalkOrder, S) :
        S \in { T \in SUBSET {WalkOrder[i] : i \in DOMAIN WalkOrder} :
                    Cardinality(T) <= MaxFiles } }

(***************************************************************************)
(* missing_exif_data.json (lines 42-60).  A JSON object is the set of its  *)
(* members <<key, value>>; the dict in memory is a function on its keys.   *)
(***************************************************************************)
EmptyDict == <<>>

\* json.dump of a dict (line 57): one member per key
JsonDump(d) == {<<k, d[k]>> : k \in DOMAIN d}

\* json.load of an object (line 45): the dict of its members
JsonLoad(members) ==
    [k \in {m[1] : m \in members} |-> (CHOOSE m \in members : m[1] = k)[2]]

NoFile == [exists |-> FALSE, valid |-> FALSE, members |-> {}]

\* the file after open(path, 'w') and before any byte is flushed: empty, not JSON
TruncatedFile == [exists |-> TRUE, valid |-> FALSE, members |-> {}]

\* mutant of _load_missing_exif_data: the saved data is not read back
LoadForgetsSavedData(f) == EmptyDict

\* _load_missing_exif_data (lines 42-51): {} without a file or when json.load raises
_load_missing_exif_data(f) ==
    IF f.exists /\ f.valid THEN JsonLoad(f.members) ELSE EmptyDict

\* save_missing_exif_data (lines 54-60): the file once the dump is written and closed
save_missing_exif_data(d) == [exists |-> TRUE, valid |-> TRUE, members |-> JsonDump(d)]

\* d with d[k] = e (line 181)
DictSet(d, k, e) == [x \in DOMAIN d \cup {k} |-> IF x = k THEN e ELSE d[x]]

(***************************************************************************)
(* generate_statistics and print_statistics (lines 253-271, 347-390).      *)
(***************************************************************************)
\* the set as a sequence ascending in Python's string order
RECURSIVE SortLabels(_)
SortLabels(S) ==
    IF S = {} THEN <<>>
    ELSE LET m == CHOOSE x \in S : \A y \in S : y = x \/ StrLess(x, y)
         IN  <<m>> \o SortLabels(S \ {m})

\* the set as a sequence ascending numerically
RECURSIVE SortNumbers(_)
SortNumbers(S) ==
    IF S = {} THEN <<>>
    ELSE LET m == CHOOSE x \in S : \A y \in S : x <= y
         IN  <<m>> \o SortNumbers(S \ {m})

\* df['focal_group'].value_counts().sort_index() (line 261): one row per label,
\* rows ascending by label
GroupStats(fd) ==
    LET keys == SortLabels({fd[i].focal_group : i \in DOMAIN fd})
    IN  [n \in DOMAIN keys |->
            [key |-> keys[n],
             count |-> Cardinality({i \in DOMAIN fd : fd[i].focal_group = keys[n]})]]

\* df['equivalent_focal'].value_counts().sort_index() (line 264)
FocalStats(fd) ==
    LET keys == SortNumbers({fd[i].equivalent_focal : i \in DOMAIN fd})
    IN  [n \in DOMAIN keys |->
            [key |-> keys[n],
             count |-> Cardinality({i \in DOMAIN fd : fd[i].equivalent_focal = keys[n]})]]

NoStats == [group_stats |-> <<>>, focal_stats |-> <<>>, total_images |-> 0]

\* generate_statistics (lines 253-271), for a non-empty focal_data
generate_statistics(fd) ==
    [group_stats |-> GroupStats(fd), focal_stats |-> FocalStats(fd),
     total_images |-> Len(fd)]

NoReport == [kind |-> "none", stats |-> NoStats, most_used_group |-> <<>>,
             most_used_focal |-> NoneF, printed |-> FALSE, visualized |-> FALSE]

\* main after analyze_folder (lines 403-413): nothing to analyse, or the statistics
\* with print_statistics' upgrade suggestion (lines 379-380) and the chart
MainReport(fd) ==
    IF fd = <<>>
    THEN [NoReport EXCEPT !.kind = "empty"]
    ELSE LET stats == generate_statistics(fd)
         IN  [kind |-> "stats", stats |-> stats,
              most_used_group |-> stats.group_stats[1].key,
              most_used_focal |-> stats.focal_stats[1].key,
              printed |-> TRUE, visualized |-> TRUE]

(***************************************************************************)
(* The console (lines 157-176).                                            *)
(***************************************************************************)
\* lines the user may type at the focal-length prompt and at the sensor prompt
FocalLines == {"", "  ", "abc", "10.1", " 24 "}
SensorLines == {"1", " 2 ", "3", "4", "5", "", "7"}

\* str.strip() on those lines
Strip(line) ==
    CASE line = "  " -> ""
      [] line = " 24 " -> "24"
      [] line = " 2 " -> "2"
      [] OTHER -> line

\* mutant of IsFloat: only whole numbers are taken, as with int(s)
IsFloatWholeOnly(s) == s = "24"

\* does float(s) return (line 162), or raise ValueError
IsFloat(s) == s \in {"10.1", "24"}

\* float(s), in hundredths
ParseFloat(s) == CASE s = "10.1" -> 1010 [] s = "24" -> 2400

\* mutant of SensorCropFactor: an unknown choice falls to APS-C
SensorCropFactorDefaultsToApsc(sensor_choice) ==
    CASE sensor_choice = "1" -> 10
      [] sensor_choice = "2" -> 15
      [] sensor_choice = "3" -> 16
      [] sensor_choice = "4" -> 20
      [] sensor_choice = "5" -> 27
      [] OTHER -> 15

\* crop_factors.get(sensor_choice, 1.0) (lines 175-176), in tenths
SensorCropFactor(sensor_choice) ==
    CASE sensor_choice = "1" -> 10
      [] sensor_choice = "2" -> 15
      [] sensor_choice = "3" -> 16
      [] sensor_choice = "4" -> 20
      [] sensor_choice = "5" -> 27
      [] OTHER -> 10

\* float(focal_length * crop_factor) (line 178), in hundredths
EquivalentFocal(focal, crop_factor) == (focal * crop_factor) \div 10

\* the entry stored for an image (lines 181-187).  Its timestamp is not modelled:
\* the program writes it and never reads it.
NewEntry(focal, sensor_choice) ==
    [focal_length |-> focal,
     crop_factor |-> SensorCropFactor(sensor_choice),
     equivalent_focal |-> EquivalentFocal(focal, SensorCropFactor(sensor_choice)),
     sensor_choice |-> sensor_choice]

\* the record of an image the store or the user resolved (lines 242-248);
\* "manual" stands for the source's camera_model literal
ManualRecord(path, equivalent_focal) ==
    [filename |-> <<Basename(path)>>,
     original_focal |-> NoneF,
     camera_model |-> "manual",
     equivalent_focal |-> equivalent_focal,
     focal_group |-> group_focal_length(equivalent_focal)]

\* the record of an image with a focal length in its EXIF data (lines 222-228)
ExifRecord(path, focal, camera_model, equivalent_focal) ==
    [filename |-> path,
     original_focal |-> focal,
     camera_model |-> camera_model,
     equivalent_focal |-> equivalent_focal,
     focal_group |-> group_focal_length(equivalent_focal)]

\* is there saved data for the file name (line 147)
IsCached(store, filename) == filename \in DOMAIN store

(***************************************************************************)
(* The process.  pc is "idle" (no process), "walk" (the os.walk loop,      *)
(* lines 200-228), "lookup" (the head of the loop over missing_exif_files, *)
(* line 233), "focal" (blocked in input() at line 157), "sensor" (blocked  *)
(* in input() at line 174), "exit" (blocked in the last input() of main).  *)
(***************************************************************************)
NoCall == [arg |-> NoneF, done |-> TRUE, ret |-> <<>>]

\* the process's memory when no process runs
NoProcess ==
    /\ crop_factors' = <<>>
    /\ missing_exif_data' = EmptyDict
    /\ walk' = <<>>
    /\ missing_exif_files' = <<>>
    /\ idx' = 0
    /\ focal_data' = <<>>
    /\ focal_input' = ""
    /\ focal_length' = NoneF
    /\ resolved' = <<>>
    /\ report' = NoReport
    /\ pc' = "idle"

Init ==
    /\ file = NoFile
    /\ crop_factors = <<>>
    /\ missing_exif_data = EmptyDict
    /\ walk = <<>>
    /\ missing_exif_files = <<>>
    /\ idx = 0
    /\ focal_data = <<>>
    /\ focal_input = ""
    /\ focal_length = NoneF
    /\ resolved = <<>>
    /\ report = NoReport
    /\ pc = "idle"
    /\ call = NoCall

\* the image handle_missing_exif is working on
CurrentPath == missing_exif_files[idx]

\* main up to analyze_folder's loop (lines 393-398, 19-27, 194-198): the analyzer is
\* built (both files are loaded) and os.walk starts over the folder's listing
StartRun(folder, cf) ==
    /\ pc = "idle"
    /\ crop_factors' = _load_crop_factors(cf)
    /\ missing_exif_data' = _load_missing_exif_data(file)
    /\ walk' = folder
    /\ missing_exif_files' = <<>>
    /\ idx' = 0
    /\ focal_data' = <<>>
    /\ focal_input' = ""
    /\ focal_length' = NoneF
    /\ resolved' = <<>>
    /\ report' = NoReport
    /\ pc' = "walk"
    /\ UNCHANGED <<file, call>>

\* one file of the walk (lines 201-228); exif is what the decoder finds in it
WalkFile(exif) ==
    /\ pc = "walk"
    /\ walk # <<>>
    /\ LET path == Head(walk)
           filename == Basename(path)
           meta == extract_exif_data(exif)
       IN  /\ walk' = Tail(walk)
           /\ IF IsResourceFork(filename) \/ FileExt(filename) \notin supported_formats
              THEN UNCHANGED <<missing_exif_files, focal_data>>
              ELSE IF meta[1] = NoneF
              THEN /\ missing_exif_files' = Append(missing_exif_files, path)
                   /\ UNCHANGED focal_data
              ELSE /\ \E eq \in convert_to_35mm_equivalent(crop_factors, meta[1], meta[2]) :
                        focal_data' = Append(focal_data, ExifRecord(path, meta[1], meta[2], eq))
                   /\ UNCHANGED missing_exif_files
    /\ UNCHANGED <<file, crop_factors, missing_exif_data, idx, focal_input, focal_length,
                   resolved, report, pc, call>>

\* the walk is over: the loop over missing_exif_files starts (lines 231-233)
BeginMissing ==
    /\ pc = "walk"
    /\ walk = <<>>
    /\ idx' = 1
    /\ pc' = "lookup"
    /\ UNCHANGED <<file, crop_factors, missing_exif_data, walk, missing_exif_files,
                   focal_data, focal_input, focal_length, resolved, report, call>>

\* handle_missing_exif up to its first prompt (lines 143-153), and for saved data
\* the rest of the loop body (lines 237-248)
Lookup ==
    /\ pc = "lookup"
    /\ idx <= Len(missing_exif_files)
    /\ LET filename == Basename(CurrentPath)
       IN  IF IsCached(missing_exif_data, filename)
           THEN LET equivalent_focal == missing_exif_data[filename].equivalent_focal
                IN  /\ resolved' = Append(resolved,
                            [path |-> CurrentPath, how |-> "cache", value |-> equivalent_focal])
                    /\ focal_data' = Append(focal_data, ManualRecord(CurrentPath, equivalent_focal))
                    /\ idx' = idx + 1
                    /\ UNCHANGED pc
           ELSE /\ pc' = "focal"
                /\ UNCHANGED <<resolved, focal_data, idx>>
    /\ UNCHANGED <<file, crop_factors, missing_exif_data, walk, missing_exif_files,
                   focal_input, focal_length, report, call>>

\* mutant of FocalInput: a skip leaves the loop over missing_exif_files (break
\* for continue at line 238)
FocalInputSkipEndsLoop(line) ==
    /\ pc = "focal"
    /\ focal_input' = Strip(line)
    /\ IF Strip(line) = ""
       THEN /\ resolved' = Append(resolved,
                    [path |-> CurrentPath, how |-> "skipped", value |-> NoneF])
            /\ idx' = Len(missing_exif_files) + 1
            /\ pc' = "lookup"
            /\ UNCHANGED focal_length
       ELSE IF IsFloat(Strip(line))
       THEN /\ focal_length' = ParseFloat(Strip(line))
            /\ pc' = "sensor"
            /\ UNCHANGED <<resolved, idx>>
       ELSE UNCHANGED <<resolved, idx, pc, focal_length>>
    /\ UNCHANGED <<file, crop_factors, missing_exif_data, walk, missing_exif_files,
                   focal_data, report, call>>

\* one line read at the focal-length prompt (lines 155-165)
FocalInput(line) ==
    /\ pc = "focal"
    /\ focal_input' = Strip(line)
    /\ IF Strip(line) = ""
       THEN \* skipped (lines 158-160, 237-238)
            /\ resolved' = Append(resolved,
                    [path |-> CurrentPath, how |-> "skipped", value |-> NoneF])
            /\ idx' = idx + 1
            /\ pc' = "lookup"
            /\ UNCHANGED focal_length
       ELSE IF IsFloat(Strip(line))
       THEN /\ focal_length' = ParseFloat(Strip(line))
            /\ pc' = "sensor"
            /\ UNCHANGED <<resolved, idx>>
       ELSE \* ValueError: asked again (lines 164-165)
            UNCHANGED <<resolved, idx, pc, focal_length>>
    /\ UNCHANGED <<file, crop_factors, missing_exif_data, walk, missing_exif_files,
                   focal_data, report, call>>

\* the file after save_missing_exif_data (lines 54-60): written, or left as it was
\* when open() raises, or left truncated when the dump raises; the exception is
\* caught and reported
SavedFile(store, outcome) ==
    CASE outcome = "written" -> save_missing_exif_data(store)
      [] outcome = "open_failed" -> file
      [] outcome = "write_failed" -> TruncatedFile

\* the line read at the sensor prompt, and the rest of handle_missing_exif and of
\* the loop body (lines 174-190, 240-248)
SensorStep(line, outcome) ==
    /\ pc = "sensor"
    /\ LET filename == Basename(CurrentPath)
           entry == NewEntry(focal_length, Strip(line))
           store == DictSet(missing_exif_data, filename, entry)
       IN  /\ missing_exif_data' = store
           /\ file' = SavedFile(store, outcome)
           /\ resolved' = Append(resolved,
                   [path |-> CurrentPath, how |-> "fresh", value |-> entry.equivalent_focal])
           /\ focal_data' = Append(focal_data, ManualRecord(CurrentPath, entry.equivalent_focal))
    /\ idx' = idx + 1
    /\ focal_input' = ""
    /\ focal_length' = NoneF
    /\ pc' = "lookup"
    /\ UNCHANGED <<crop_factors, walk, missing_exif_files, report, call>>

\* the sensor prompt when the file system works
SensorInput(line) == SensorStep(line, "written")

\* analyze_folder returns and main reports (lines 250, 399-413)
Report ==
    /\ pc = "lookup"
    /\ idx > Len(missing_exif_files)
    /\ report' = MainReport(focal_data)
    /\ pc' = "exit"
    /\ UNCHANGED <<file, crop_factors, missing_exif_data, walk, missing_exif_files, idx,
                   focal_data, focal_input, focal_length, resolved, call>>

\* the last input() returns and the process ends (lines 405-406, 415)
Exit ==
    /\ pc = "exit"
    /\ NoProcess
    /\ UNCHANGED <<file, call>>

Next ==
    \/ \E folder \in Folders, cf \in CropFactorFiles : StartRun(folder, cf)
    \/ \E exif \in ExifInputs : WalkFile(exif)
    \/ BeginMissing
    \/ Lookup
    \/ \E line \in FocalLines : FocalInput(line)
    \/ \E line \in SensorLines : SensorInput(line)
    \/ Report
    \/ Exit

Spec == Init /\ [][Next]_vars

(***************************************************************************)
(* Faults: the process is killed, or the file system refuses a write.      *)
(***************************************************************************)
\* the process dies anywhere outside save_missing_exif_data
Crash ==
    /\ pc # "idle"
    /\ NoProcess
    /\ UNCHANGED <<file, call>>

\* the process dies inside save_missing_exif_data, after open(path, 'w') has
\* truncated the file and before the dump is flushed (lines 56-57)
CrashInSave ==
    /\ pc = "sensor"
    /\ file' = TruncatedFile
    /\ NoProcess
    /\ UNCHANGED call

\* the sensor prompt when the save raises (lines 59-60)
SensorInputSaveFails(line, outcome) == SensorStep(line, outcome)

NextCrash ==
    \/ Next
    \/ Crash
    \/ CrashInSave
    \/ \E line \in SensorLines, outcome \in {"open_failed", "write_failed"} :
            SensorInputSaveFails(line, outcome)

SpecCrash == Init /\ [][NextCrash]_vars

(***************************************************************************)
(* group_focal_length alone, on every tenth of a millimetre up to MaxFocal *)
(* and on None.                                                            *)
(***************************************************************************)
ClassifyInputs == {NoneF} \cup {10 * t : t \in 0..(MaxFocal * 10)}

InitClassify ==
    /\ file = NoFile
    /\ crop_factors = <<>>
    /\ missing_exif_data = EmptyDict
    /\ walk = <<>>
    /\ missing_exif_files = <<>>
    /\ idx = 0
    /\ focal_data = <<>>
    /\ focal_input = ""
    /\ focal_length = NoneF
    /\ resolved = <<>>
    /\ report = NoReport
    /\ pc = "idle"
    /\ \E v \in ClassifyInputs : call = [arg |-> v, done |-> FALSE, ret |-> <<>>]

Classify ==
    /\ ~call.done
    /\ call' = [arg |-> call.arg, done |-> TRUE, ret |-> group_focal_length(call.arg)]
    /\ UNCHANGED <<file, crop_factors, missing_exif_data, walk, missing_exif_files, idx,
                   focal_data, focal_input, focal_length, resolved, report, pc>>

NextClassify == Classify

SpecClassify == InitClassify /\ [][NextClassify]_vars

(***************************************************************************)
(* Properties.                                                             *)
(***************************************************************************)
\* the entries the durable file holds: the members of a complete JSON document
SavedMembers(f) == IF f.exists /\ f.valid THEN f.members ELSE {}

\* the last element of a non-empty sequence
Last(s) == s[Len(s)]

\* C1 (checked under Spec): once an entry for file name k has been elicited and
\* saved, it stays in the durable file as saved, and every later resolution of an
\* image named k, in that run or in a later run that reloaded the file, returns the
\* saved equivalent focal length without a prompt and writes neither the store in
\* memory nor the file.
C1_SavedEntryStep ==
    \A m \in SavedMembers(file) :
        /\ m \in SavedMembers(file')
        /\ (pc = "lookup" /\ idx <= Len(missing_exif_files) /\ Basename(CurrentPath) = m[1])
              => /\ pc' = "lookup"
                 /\ idx' = idx + 1
                 /\ resolved' = Append(resolved, [path |-> CurrentPath, how |-> "cache",
                                                  value |-> m[2].equivalent_focal])
                 /\ Len(focal_data') = Len(focal_data) + 1
                 /\ Last(focal_data').equivalent_focal = m[2].equivalent_focal
                 /\ missing_exif_data' = missing_exif_data
                 /\ file' = file

\* C1: every step keeps each saved entry in the file, and a lookup of a saved file
\* name returns the saved equivalent focal length with no prompt and no write.
C1_SavedEntryReused == [][C1_SavedEntryStep]_vars

\* C1 witness: in a run that elicited nothing so far, an image was resolved from an
\* entry an earlier run saved, at the saved value.
C1_Witness ==
    /\ \A i \in DOMAIN resolved : resolved[i].how # "fresh"
    /\ \E i \in DOMAIN resolved :
          /\ resolved[i].how = "cache"
          /\ \E m \in SavedMembers(file) :
                /\ m[1] = Basename(resolved[i].path)
                /\ m[2].equivalent_focal = resolved[i].value

\* C2 (checked under SpecCrash): when the process dies, at any point of a run and
\* also inside the save, every entry the durable file held before is still in it.
C2_CrashStep ==
    (pc \notin {"idle", "exit"} /\ pc' = "idle")
        => \A k \in DOMAIN _load_missing_exif_data(file) :
              /\ k \in DOMAIN _load_missing_exif_data(file')
              /\ _load_missing_exif_data(file')[k] = _load_missing_exif_data(file)[k]

\* C2: no step in which the process dies removes a saved entry from the file.
C2_CrashKeepsSavedEntries == [][C2_CrashStep]_vars

\* C3 (checked under SpecClassify): for every group of the table and every value
\* within its inclusive bounds, group_focal_length returns that group's label.
C3_InBoundsGetsOwnLabel ==
    (call.done /\ call.arg # NoneF)
        => \A i \in DOMAIN focal_groups :
              InGroup(focal_groups[i], call.arg) => call.ret = focal_groups[i].name

\* the row of a key in a sequence of rows
RowOf(rows, key) == (CHOOSE n \in DOMAIN rows : rows[n].key = key)

\* C4 (checked under Spec): the group and the focal value reported as most used
\* have a maximal count, and are the first in ascending key order among the keys
\* with that count.
C4_MostUsedIsBestRepresented ==
    report.kind = "stats"
        => LET gs == report.stats.group_stats
               fs == report.stats.focal_stats
               g == RowOf(gs, report.most_used_group)
               f == RowOf(fs, report.most_used_focal)
           IN  /\ \A n \in DOMAIN gs : gs[n].count <= gs[g].count
               /\ \A n \in DOMAIN gs : gs[n].count = gs[g].count => g <= n
               /\ \A n \in DOMAIN fs : fs[n].count <= fs[f].count
               /\ \A n \in DOMAIN fs : fs[n].count = fs[f].count => f <= n

\* C5 (checked under Spec): a fresh elicitation returns, and stores, raw focal
\* length times crop factor rounded to one decimal place; every equivalent focal
\* length among the records is a multiple of 0.1.
C5_ElicitedIsRounded ==
    /\ \A i \in DOMAIN resolved :
          resolved[i].how = "fresh"
              => LET e == missing_exif_data[Basename(resolved[i].path)]
                 IN  /\ e.equivalent_focal = resolved[i].value
                     /\ resolved[i].value \in Round1((e.focal_length * e.crop_factor) \div 10)
    /\ \A i \in DOMAIN focal_data : focal_data[i].equivalent_focal % 10 = 0

\* the place of a label in the table of focal groups, 0 for a label not in it
TableIndex(label) ==
    IF \E i \in DOMAIN focal_groups : focal_groups[i].name = label
    THEN CHOOSE i \in DOMAIN focal_groups : focal_groups[i].name = label
    ELSE 0

\* C6 (checked under Spec): in the statistics, a group defined earlier in the table
\* never comes after a group defined later, and the focal values ascend.
C6_StatsInDefinedOrder ==
    report.kind = "stats"
        => LET gs == report.stats.group_stats
               fs == report.stats.focal_stats
           IN  /\ \A a, b \in DOMAIN gs :
                     (a < b /\ TableIndex(gs[a].key) > 0 /\ TableIndex(gs[b].key) > 0)
                        => TableIndex(gs[a].key) < TableIndex(gs[b].key)
               /\ \A a, b \in DOMAIN fs : a < b => fs[a].key < fs[b].key

\* the records of images whose EXIF data held a focal length
ExifRecords == {i \in DOMAIN focal_data : focal_data[i].original_focal # NoneF}

\* C7 (checked under Spec): at the focal-length prompt, a line that is neither
\* empty nor a number (after strip) leaves everything as it is and the prompt is
\* repeated; a number leads to the sensor prompt for the same image; an empty line
\* skips the image: store, file and records are unchanged.  Hence the records are
\* the EXIF records and one per image that was not skipped.
C7_FocalPromptStep ==
    pc = "focal"
        => /\ file' = file
           /\ missing_exif_data' = missing_exif_data
           /\ focal_data' = focal_data
           /\ missing_exif_files' = missing_exif_files
           /\ CASE focal_input' = "" ->
                      /\ pc' = "lookup"
                      /\ idx' = idx + 1
                      /\ resolved' = Append(resolved, [path |-> CurrentPath,
                                                       how |-> "skipped", value |-> NoneF])
                [] focal_input' \in {"10.1", "24"} ->
                      /\ pc' = "sensor"
                      /\ idx' = idx
                      /\ resolved' = resolved
                      /\ focal_length' = (IF focal_input' = "24" THEN 2400 ELSE 1010)
                [] OTHER ->
                      /\ pc' = "focal"
                      /\ idx' = idx
                      /\ resolved' = resolved
                      /\ focal_length' = focal_length

C7_SkippedAddsNoRecord ==
    pc \in {"lookup", "focal", "sensor", "exit"}
        => Len(focal_data) = Cardinality(ExifRecords)
              + Cardinality({i \in DOMAIN resolved : resolved[i].how # "skipped"})

\* C7: the focal-length prompt is left only by a number or by an empty line, and a
\* skipped image changes neither store nor file and adds no record.
C7_FocalPrompt == [][C7_FocalPromptStep]_vars /\ []C7_SkippedAddsNoRecord

\* C7 witness: after one image was skipped, the prompt for the next one has just
\* rejected a line that is no number, and is still waiting.
C7_Witness ==
    /\ pc = "focal"
    /\ focal_input = "abc"
    /\ \E i \in DOMAIN resolved : resolved[i].how = "skipped"
    /\ ExifRecords # {}

\* the crop factor of a sensor choice, in tenths
C8_CropOfChoice(choice) ==
    CASE choice = "1" -> 10 [] choice = "2" -> 15 [] choice = "3" -> 16
      [] choice = "4" -> 20 [] choice = "5" -> 27 [] OTHER -> 10

\* C8 (checked under Spec): the sensor prompt is answered once: whatever the line,
\* the image is resolved at that step, with the crop factor of the choice ("1".."5"
\* after strip) and 1.0 for any other line; every stored entry has a crop factor
\* among 1.0, 1.5, 1.6, 2.0, 2.7.
C8_SensorPromptStep ==
    pc = "sensor"
        => /\ pc' = "lookup"
           /\ idx' = idx + 1
           /\ Basename(CurrentPath) \in DOMAIN missing_exif_data'
           /\ LET e == missing_exif_data'[Basename(CurrentPath)]
              IN  /\ e.focal_length = focal_length
                  /\ e.crop_factor = C8_CropOfChoice(e.sensor_choice)
                  /\ <<Basename(CurrentPath), e>> \in SavedMembers(file')

C8_StoredCropFactors ==
    /\ \A k \in DOMAIN missing_exif_data :
          missing_exif_data[k].crop_factor \in {10, 15, 16, 20, 27}
    /\ \A m \in SavedMembers(file) : m[2].crop_factor \in {10, 15, 16, 20, 27}

\* C8: the sensor prompt is asked once and yields the crop factor of the choice, 1.0
\* for any other line; stored crop factors are among 1.0, 1.5, 1.6, 2.0, 2.7.
C8_SensorPrompt == [][C8_SensorPromptStep]_vars /\ []C8_StoredCropFactors

\* C8 witness: the store holds an entry made with an invalid choice, at crop factor
\* 1.0, and an entry made with choice "5", at 2.7.
C8_Witness ==
    \E k1, k2 \in DOMAIN missing_exif_data :
        /\ missing_exif_data[k1].sensor_choice = "7"
        /\ missing_exif_data[k1].crop_factor = 10
        /\ missing_exif_data[k2].sensor_choice = "5"
        /\ missing_exif_data[k2].crop_factor = 27

\* C9 (checked under Spec): a skip moves the loop to the next image and nothing
\* else; the images are resolved one by one in the order of the list, and the run
\* reports only after the last one; when no image had a focal length and all were
\* skipped, main ends without statistics, print-out or chart.
C9_SkipStep ==
    (pc = "focal" /\ focal_input' = "")
        => /\ pc' = "lookup"
           /\ idx' = idx + 1
           /\ missing_exif_files' = missing_exif_files

C9_EveryImageOffered ==
    /\ pc \in {"lookup", "focal", "sensor", "exit"}
          => /\ Len(resolved) = idx - 1
             /\ Len(resolved) <= Len(missing_exif_files)
             /\ \A i \in DOMAIN resolved : resolved[i].path = missing_exif_files[i]
    /\ pc \in {"focal", "sensor"} => idx <= Len(missing_exif_files)
    /\ pc = "exit"
          => /\ Len(resolved) = Len(missing_exif_files)
             /\ (ExifRecords = {} /\ \A i \in DOMAIN resolved : resolved[i].how = "skipped")
                   => /\ report.kind = "empty"
                      /\ ~report.printed
                      /\ ~report.visualized

\* C9: a skip only moves on to the next image, every listed image is resolved in
\* order, and an all-skipped run without EXIF records ends with nothing reported.
C9_SkipIsLocal == [][C9_SkipStep]_vars /\ []C9_EveryImageOffered

\* C9 witness: a run with three images and no focal length in any of them, all
\* three skipped one after the other, has ended with nothing to analyse.
C9_Witness ==
    /\ pc = "exit"
    /\ Len(missing_exif_files) = 3
    /\ Len(resolved) = 3
    /\ \A i \in DOMAIN resolved : resolved[i].how = "skipped"
    /\ report.kind = "empty"

\* C10 (checked under Spec): within a run, an entry elicited for one image is never
\* used to resolve another image.
C10_NoSharedEntry ==
    \A i, j \in DOMAIN resolved :
        (i < j /\ resolved[i].how = "fresh" /\ resolved[i].path # resolved[j].path
               /\ Basename(resolved[i].path) = Basename(resolved[j].path))
            => resolved[j].how # "cache"

====
